---- MODULE Spec2Model ----
(***************************************************************************)
(* NCC serial monitor: the scan procedures of the tRPC router              *)
(* (scan.single, scan.shopee, scan.all, scan.allShopee), its serials and   *)
(* detections procedures (create, update, delete, list, updateStatus), the *)
(* search result classification of server/search.ts and the storage        *)
(* functions of server/db.ts in both storage modes (MySQL through drizzle, *)
(* and the in-memory fallback used when DATABASE_URL is not configured).   *)
(*                                                                         *)
(* A request handler is an async function: every `await` is a point where  *)
(* another handler may run, so each awaited call is one step of the        *)
(* handler's process and the synchronous code that follows it belongs to   *)
(* the same step.                                                          *)
(***************************************************************************)
EXTENDS Integers, Sequences, FiniteSets, TLC

(* ------------------------------ bounds -------------------------------- *)

\* Serial rows ever created (ids 1..MaxSerials).
MaxSerials == 2
\* Requests that read the clock (serial creations and scan requests).
MaxClock == 3
\* Items one search query returns.
MaxResults == 2

Users == {1, 2}
Procs == {"p1", "p2"}
SearchTypes == {"all", "shopee", "general"}

(* ------------------------------- text --------------------------------- *)
\* JavaScript strings are modelled as sequences of one-character strings, so
\* that includes(), match() and split() are computed and not assumed.

UrlProduct == "https://shopee.tw/x-i.1.2"
UrlOther == "https://other.com/y"
UrlShop == "https://shopee.tw/shop1"
UrlNoScheme == "shopee.tw/x-i.1.2"
UrlInfixOnly == "https://shopee.tw/a-i.b"
UrlDeep == "https://shopee.tw/a/b"
UrlQuery == "https://shopee.tw/shop1?r=i.1.2"

AllUrls == {UrlProduct, UrlOther, UrlShop, UrlNoScheme, UrlInfixOnly, UrlDeep, UrlQuery}

Chars(u) ==
  CASE u = "https://shopee.tw/x-i.1.2" -> <<"h", "t", "t", "p", "s", ":", "/", "/", "s", "h", "o", "p", "e", "e", ".", "t", "w", "/", "x", "-", "i", ".", "1", ".", "2">>
    [] u = "https://other.com/y" -> <<"h", "t", "t", "p", "s", ":", "/", "/", "o", "t", "h", "e", "r", ".", "c", "o", "m", "/", "y">>
    [] u = "https://shopee.tw/shop1" -> <<"h", "t", "t", "p", "s", ":", "/", "/", "s", "h", "o", "p", "e", "e", ".", "t", "w", "/", "s", "h", "o", "p", "1">>
    [] u = "shopee.tw/x-i.1.2" -> <<"s", "h", "o", "p", "e", "e", ".", "t", "w">> \o <<"/", "x", "-", "i", ".", "1", ".", "2">>
    [] u = "https://shopee.tw/a-i.b" -> <<"h", "t", "t", "p", "s", ":", "/", "/", "s", "h", "o", "p", "e", "e", ".", "t", "w", "/", "a", "-", "i", ".", "b">>
    [] u = "https://shopee.tw/a/b" -> <<"h", "t", "t", "p", "s", ":", "/", "/", "s", "h", "o", "p", "e", "e", ".", "t", "w", "/", "a", "/", "b">>
    [] u = "https://shopee.tw/shop1?r=i.1.2" -> <<"h", "t", "t", "p", "s", ":", "/", "/", "s", "h", "o", "p", "e", "e", ".", "t", "w", "/", "s", "h", "o", "p", "1", "?", "r", "=", "i", ".", "1", ".", "2">>

Digits == {"0", "1", "2", "3", "4", "5", "6", "7", "8", "9"}

\* String.prototype.includes
Includes(s, sub) ==
  \E k \in 0..(Len(s) - Len(sub)) : SubSeq(s, k + 1, k + Len(sub)) = sub

\* String.prototype.startsWith
StartsWith(s, pre) == Len(pre) <= Len(s) /\ SubSeq(s, 1, Len(pre)) = pre

\* Length of the longest run of digits of s that starts at position k (\d+ is greedy).
RECURSIVE DigitRun(_, _)
DigitRun(s, k) ==
  IF k <= Len(s) /\ s[k] \in Digits THEN 1 + DigitRun(s, k + 1) ELSE 0

\* The regular expression /i\.(\d+)\.(\d+)/ matches at position k of s.
ProductMatchAt(s, k) ==
  /\ k + 1 <= Len(s)
  /\ s[k] = "i"
  /\ s[k + 1] = "."
  /\ DigitRun(s, k + 2) > 0
  /\ LET d == k + 2 + DigitRun(s, k + 2) IN
       /\ d <= Len(s)
       /\ s[d] = "."
       /\ DigitRun(s, d + 1) > 0

\* url.match(/i\.(\d+)\.(\d+)/): the leftmost match's two groups, or the empty
\* sequence when nothing matches.
ProductMatch(s) ==
  LET at == {k \in 1..Len(s) : ProductMatchAt(s, k)} IN
    IF at = {} THEN <<>>
    ELSE LET k == CHOOSE x \in at : \A y \in at : x <= y
             n1 == DigitRun(s, k + 2)
             d == k + 2 + n1
             n2 == DigitRun(s, d + 1)
         IN <<SubSeq(s, k + 2, d - 1), SubSeq(s, d + 1, d + n2)>>

SchemeHttp == <<"h", "t", "t", "p", ":", "/", "/">>
SchemeHttps == <<"h", "t", "t", "p", "s", ":", "/", "/">>

\* Where the authority of an http(s) URL begins, 0 for a string without such a scheme.
AuthorityStart(s) ==
  IF StartsWith(s, SchemeHttps) THEN Len(SchemeHttps) + 1
  ELSE IF StartsWith(s, SchemeHttp) THEN Len(SchemeHttp) + 1
  ELSE 0

\* First position >= k of s holding a character of stop, Len(s) + 1 when there is none.
RECURSIVE FindFrom(_, _, _)
FindFrom(s, k, stop) ==
  IF k > Len(s) \/ s[k] \in stop THEN k ELSE FindFrom(s, k + 1, stop)

\* new URL(url) succeeds: for the strings used here, an http(s) scheme followed by a
\* non-empty host; a string without a scheme is a relative URL and throws.
UrlParses(s) ==
  /\ AuthorityStart(s) > 0
  /\ FindFrom(s, AuthorityStart(s), {"/", "?", "#"}) > AuthorityStart(s)

\* urlObj.pathname: from the first "/" after the host to the query or fragment.
Pathname(s) ==
  LET a == FindFrom(s, AuthorityStart(s), {"/", "?", "#"})
      e == FindFrom(s, a, {"?", "#"})
  IN IF a > Len(s) \/ s[a] # "/" THEN <<"/">> ELSE SubSeq(s, a, e - 1)

\* pathname.split("/").filter(Boolean): the non-empty segments between slashes.
RECURSIVE PathParts(_)
PathParts(path) ==
  IF path = <<>> THEN <<>>
  ELSE LET e == FindFrom(path, 1, {"/"})
           rest == IF e >= Len(path) THEN <<>> ELSE SubSeq(path, e + 1, Len(path))
       IN IF e = 1 THEN PathParts(rest)
          ELSE <<SubSeq(path, 1, e - 1)>> \o PathParts(rest)

(* --------------------------- server/search.ts -------------------------- *)

ShopeeTw == <<"s", "h", "o", "p", "e", "e", ".", "t", "w">>
ShopeeCom == <<"s", "h", "o", "p", "e", "e", ".", "c", "o", "m">>
ProductInfix == <<"-", "i", ".">>

\* An absent string property (undefined or null) is the empty sequence: every
\* caller reads these fields through `x || null`, which maps "" to null too.
NoText == <<>>
NoInfo == [shopId |-> NoText, productId |-> NoText, shopName |-> NoText]

isShopeeUrl(u) == Includes(Chars(u), ShopeeTw) \/ Includes(Chars(u), ShopeeCom)

\* Mutant: the shop pattern is tried first and the product pattern never.
extractShopeeSellerInfoMutShopFirst(u) ==
  LET s == Chars(u) IN
    IF ~UrlParses(s) THEN NoInfo
    ELSE LET parts == PathParts(Pathname(s)) IN
      IF Len(parts) = 1
      THEN [NoInfo EXCEPT !.shopName = parts[1]]
      ELSE NoInfo

\* Mutant: a product page with a one-segment path gets the segment as shop name too.
extractShopeeSellerInfoMutNameToo(u) ==
  LET s == Chars(u) IN
    IF ~UrlParses(s) THEN NoInfo
    ELSE LET parts == PathParts(Pathname(s)) IN
      IF ProductMatch(s) # <<>>
      THEN [shopId |-> ProductMatch(s)[1], productId |-> ProductMatch(s)[2],
            shopName |-> IF Len(parts) = 1 THEN parts[1] ELSE NoText]
      ELSE IF Len(parts) = 1 /\ ~Includes(parts[1], ProductInfix)
      THEN [NoInfo EXCEPT !.shopName = parts[1]]
      ELSE NoInfo

extractShopeeSellerInfo(u) ==
  LET s == Chars(u) IN
    IF ~UrlParses(s) THEN NoInfo
    ELSE IF ProductMatch(s) # <<>>
    THEN [NoInfo EXCEPT !.shopId = ProductMatch(s)[1], !.productId = ProductMatch(s)[2]]
    ELSE LET parts == PathParts(Pathname(s)) IN
      IF Len(parts) = 1 /\ ~Includes(parts[1], ProductInfix)
      THEN [NoInfo EXCEPT !.shopName = parts[1]]
      ELSE NoInfo

\* What one query's transport gives: the item links, or a failure (axios rejects).
\* performGoogleCustomSearch and performFallbackSearch catch the failure and
\* return an empty list.
SearchOk(items) == [ok |-> TRUE, items |-> items]
SearchError == [ok |-> FALSE, items |-> <<>>]

rawResults(outcome) == IF outcome.ok THEN outcome.items ELSE <<>>

\* performSearch: tags each raw result with the query's source and the domain test.
performSearch(outcome, source) ==
  [k \in 1..Len(rawResults(outcome)) |->
     [url |-> rawResults(outcome)[k],
      source |-> source,
      isShopee |-> isShopeeUrl(rawResults(outcome)[k])]]

\* Mutant: the general results are merged unfiltered.
filteredGeneralMutKeep(generalResults) == generalResults

filteredGeneral(generalResults) ==
  SelectSeq(generalResults,
            LAMBDA r : ~Includes(Chars(r.url), ShopeeTw) /\ ~Includes(Chars(r.url), ShopeeCom))

\* performGoogleSearch: the marketplace query first, then the filtered general query.
performGoogleSearch(searchType, shopeeOutcome, generalOutcome) ==
  (IF searchType \in {"all", "shopee"} THEN performSearch(shopeeOutcome, "shopee") ELSE <<>>)
  \o
  (IF searchType \in {"all", "general"}
   THEN filteredGeneral(performSearch(generalOutcome, "general")) ELSE <<>>)

performShopeeSearch(shopeeOutcome) == performSearch(shopeeOutcome, "shopee")

(* ----------------------------- the state ------------------------------ *)

VARIABLES
  dbMode,           \* TRUE: getDb() gives a database; FALSE: in-memory fallback
  serials,          \* ncc_serials rows / inMemoryStore.serials, in insertion order
  detections,       \* detections rows / inMemoryStore.detections, in insertion order
  scanLogs,         \* scan_logs rows (the in-memory store keeps none)
  nextSerialId,     \* AUTO_INCREMENT / inMemoryStore.nextSerialId
  nextDetectionId,  \* AUTO_INCREMENT / inMemoryStore.nextDetectionId
  clock,            \* the wall clock, read through new Date() / defaultNow()
  req,              \* the request handlers in flight, one record per process
  prevScan,         \* history: the last scan of one serial that returned
  lastCall          \* history: the last call observed, with the store before it

vars == <<dbMode, serials, detections, scanLogs, nextSerialId, nextDetectionId,
          clock, req, prevScan, lastCall>>

store == <<serials, detections, scanLogs, nextSerialId, nextDetectionId>>

\* A timestamp column that is NULL.
Never == 0

Names == {"TV box"}

\* Serial numbers as typed by the user (z.string().min(1).max(64)).
SerialInputs == {<<"c", "c", "a", "1">>, <<"C", "C", "A", "1">>}

Upper(c) ==
  CASE c = "a" -> "A"
    [] c = "c" -> "C"
    [] OTHER -> c

\* Mutant: the string is kept as typed.
toUpperCaseMutKeep(s) == s

\* String.prototype.toUpperCase
toUpperCase(s) == [k \in 1..Len(s) |-> Upper(s[k])]

(* ----------------------------- server/db.ts ---------------------------- *)

\* Array.prototype.sort with (a, b) => b.createdAt - a.createdAt, which is stable:
\* rows with equal createdAt keep their order.
RECURSIVE SortByCreatedDesc(_)
SortByCreatedDesc(rows) ==
  IF rows = <<>> THEN <<>>
  ELSE LET k == CHOOSE i \in DOMAIN rows :
                  \A j \in DOMAIN rows :
                    \/ rows[j].createdAt < rows[i].createdAt
                    \/ (rows[j].createdAt = rows[i].createdAt /\ i <= j)
           rest == [j \in 1..(Len(rows) - 1) |-> IF j < k THEN rows[j] ELSE rows[j + 1]]
       IN <<rows[k]>> \o SortByCreatedDesc(rest)

getUserSerials(userId) ==
  SortByCreatedDesc(SelectSeq(serials, LAMBDA s : s.userId = userId))

\* Mutant: the owner is not compared.
getSerialByIdMutAnyOwner(id, userId) == SelectSeq(serials, LAMBDA s : s.id = id)

\* The rows found (none or one): `undefined` is the empty sequence.
getSerialById(id, userId) ==
  SelectSeq(serials, LAMBDA s : s.id = id /\ s.userId = userId)

createSerial(data, now) ==
  Append(serials,
         [id |-> nextSerialId,
          userId |-> data.userId,
          name |-> data.name,
          serialNumber |-> data.serialNumber,
          isActive |-> data.isActive,
          lastScanAt |-> Never,
          lastShopeeScanAt |-> Never,
          createdAt |-> now])

\* updateSerial with data = {isActive}: only the owner's row is changed.
updateSerial(id, userId, isActive) ==
  [k \in DOMAIN serials |->
     IF serials[k].id = id /\ serials[k].userId = userId
     THEN [serials[k] EXCEPT !.isActive = isActive]
     ELSE serials[k]]

\* updateSerial with data = {serialNumber}: only the owner's row is changed.
updateSerialNumber(id, userId, serialNumber) ==
  [k \in DOMAIN serials |->
     IF serials[k].id = id /\ serials[k].userId = userId
     THEN [serials[k] EXCEPT !.serialNumber = serialNumber]
     ELSE serials[k]]

updateSerialLastScan(serialId, scanType, now) ==
  [k \in DOMAIN serials |->
     IF serials[k].id = serialId
     THEN IF scanType = "shopee"
          THEN [serials[k] EXCEPT !.lastShopeeScanAt = now]
          ELSE [serials[k] EXCEPT !.lastScanAt = now]
     ELSE serials[k]]

\* Mutant: the URL is looked up across all serials.
checkDetectionExistsMutAnySerial(serialId, sourceUrl) ==
  \E k \in DOMAIN detections : detections[k].sourceUrl = sourceUrl

\* Mutant: the existence check finds nothing.
checkDetectionExistsMutNever(serialId, sourceUrl) == FALSE

checkDetectionExists(serialId, sourceUrl) ==
  \E k \in DOMAIN detections :
    detections[k].serialId = serialId /\ detections[k].sourceUrl = sourceUrl

\* Mutant: the row is stored without its URL.
createDetectionMutNoUrl(data, now) ==
  Append(detections,
         [id |-> nextDetectionId,
          serialId |-> data.serialId,
          sourceUrl |-> "",
          sourceType |-> data.sourceType,
          isShopee |-> data.isShopee,
          shopeeShopId |-> data.shopeeShopId,
          shopeeProductId |-> data.shopeeProductId,
          shopeeShopName |-> data.shopeeShopName,
          status |-> data.status,
          detectedAt |-> now])

\* Mutant: a unique key on (serialId, sourceUrl) turns a duplicate insert into a no-op.
createDetectionMutUnique(data, now) ==
  IF \E k \in DOMAIN detections :
       detections[k].serialId = data.serialId /\ detections[k].sourceUrl = data.sourceUrl
  THEN detections
  ELSE Append(detections,
              [id |-> nextDetectionId,
               serialId |-> data.serialId,
               sourceUrl |-> data.sourceUrl,
               sourceType |-> data.sourceType,
               isShopee |-> data.isShopee,
               shopeeShopId |-> data.shopeeShopId,
               shopeeProductId |-> data.shopeeProductId,
               shopeeShopName |-> data.shopeeShopName,
               status |-> data.status,
               detectedAt |-> now])

\* Mutant: the insert sets the serial's earlier detections back to 'new'.
createDetectionMutReopens(data, now) ==
  Append([k \in DOMAIN detections |->
            IF detections[k].serialId = data.serialId
            THEN [detections[k] EXCEPT !.status = "new"] ELSE detections[k]],
         [id |-> nextDetectionId,
          serialId |-> data.serialId,
          sourceUrl |-> data.sourceUrl,
          sourceType |-> data.sourceType,
          isShopee |-> data.isShopee,
          shopeeShopId |-> data.shopeeShopId,
          shopeeProductId |-> data.shopeeProductId,
          shopeeShopName |-> data.shopeeShopName,
          status |-> data.status,
          detectedAt |-> now])

createDetection(data, now) ==
  Append(detections,
         [id |-> nextDetectionId,
          serialId |-> data.serialId,
          sourceUrl |-> data.sourceUrl,
          sourceType |-> data.sourceType,
          isShopee |-> data.isShopee,
          shopeeShopId |-> data.shopeeShopId,
          shopeeProductId |-> data.shopeeProductId,
          shopeeShopName |-> data.shopeeShopName,
          status |-> data.status,
          detectedAt |-> now])

\* The row as inserted: completedAt is the column's defaultNow().
ScanLogRow(data, now) ==
  [serialId |-> data.serialId, scanType |-> data.scanType,
   resultsCount |-> data.resultsCount, newDetections |-> data.newDetections,
   shopeeDetections |-> data.shopeeDetections, completedAt |-> now]

\* Mutant: the new row takes the place of the last one.
createScanLogMutOverwrite(data, now) ==
  IF ~dbMode THEN scanLogs
  ELSE IF scanLogs = <<>> THEN <<ScanLogRow(data, now)>>
  ELSE [scanLogs EXCEPT ![Len(scanLogs)] = ScanLogRow(data, now)]

\* "Skip scan logs in demo mode": without a database nothing is stored.
createScanLog(data, now) ==
  IF dbMode THEN Append(scanLogs, ScanLogRow(data, now)) ELSE scanLogs

\* Mutant: a detection that has been ignored keeps that status.
updateDetectionStatusMutTerminal(id, status) ==
  [k \in DOMAIN detections |->
     IF detections[k].id = id /\ detections[k].status # "ignored"
     THEN [detections[k] EXCEPT !.status = status]
     ELSE detections[k]]

\* updateDetectionStatus: the row with that id gets the status, whoever owns it.
updateDetectionStatus(id, status) ==
  [k \in DOMAIN detections |->
     IF detections[k].id = id
     THEN [detections[k] EXCEPT !.status = status]
     ELSE detections[k]]

\* deleteSerial without a database: when the caller owns a serial with that id,
\* the serial is spliced out and its detections are filtered out, in one turn.
deleteSerialInMemory(id, userId) ==
  IF \E k \in DOMAIN serials : serials[k].id = id /\ serials[k].userId = userId
  THEN [serials |-> SelectSeq(serials, LAMBDA s : ~(s.id = id /\ s.userId = userId)),
        detections |-> SelectSeq(detections, LAMBDA d : d.serialId # id)]
  ELSE [serials |-> serials, detections |-> detections]

\* Mutant: the detections of the serial are left behind.
deleteDetectionRowsMutKeep(id) == detections

\* deleteSerial with a database, first statement:
\* db.delete(detections).where(eq(detections.serialId, id))
deleteDetectionRows(id) == SelectSeq(detections, LAMBDA d : d.serialId # id)

\* Second statement: db.delete(scanLogs).where(eq(scanLogs.serialId, id))
deleteScanLogRows(id) == SelectSeq(scanLogs, LAMBDA l : l.serialId # id)

\* Third statement: db.delete(nccSerials).where(and(eq(id), eq(userId)))
deleteSerialRow(id, userId) ==
  SelectSeq(serials, LAMBDA s : ~(s.id = id /\ s.userId = userId))

\* The filter argument of getDetectionsByUser: undefined, or {isShopee}.
NoFilter == <<>>
Filters == {NoFilter, <<TRUE>>, <<FALSE>>}

\* sort((a, b) => b.detectedAt - a.detectedAt) / orderBy(desc(detectedAt)); rows
\* of one scan have the same detectedAt and keep their insertion order here.
RECURSIVE SortByDetectedDesc(_)
SortByDetectedDesc(rows) ==
  IF rows = <<>> THEN <<>>
  ELSE LET k == CHOOSE i \in DOMAIN rows :
                  \A j \in DOMAIN rows :
                    \/ rows[j].detectedAt < rows[i].detectedAt
                    \/ (rows[j].detectedAt = rows[i].detectedAt /\ i <= j)
           rest == [j \in 1..(Len(rows) - 1) |-> IF j < k THEN rows[j] ELSE rows[j + 1]]
       IN <<rows[k]>> \o SortByDetectedDesc(rest)

\* The ids of the serials of a user.
userSerialIds(userId) ==
  {serials[k].id : k \in {j \in DOMAIN serials : serials[j].userId = userId}}

\* getDetectionsByUser. Without a database both filters are applied in turn.
\* With a database the query is built with two calls of .where(): the select
\* builder of drizzle-orm keeps one where clause (config.where is assigned by
\* each call), so the second call replaces the IN (serialIds) condition and the
\* cast `as typeof query` only silences the type error for calling it twice.
getDetectionsByUser(userId, filter) ==
  LET mine(d) == d.serialId \in userSerialIds(userId)
      flag(d) == d.isShopee = filter[1]
  IN IF ~dbMode
     THEN SortByDetectedDesc(
            SelectSeq(detections, LAMBDA d : mine(d) /\ (filter = NoFilter \/ flag(d))))
     ELSE IF userSerialIds(userId) = {} THEN <<>>
     ELSE IF filter = NoFilter
     THEN SortByDetectedDesc(SelectSeq(detections, LAMBDA d : mine(d)))
     ELSE SortByDetectedDesc(SelectSeq(detections, LAMBDA d : flag(d)))

(* -------------------------- request handlers -------------------------- *)

NoReturn == [kind |-> "none"]

\* A process that serves no request.
Idle ==
  [pc |-> "idle", op |-> "none", user |-> 0, searchType |-> "all", serialId |-> 0,
   activeSerials |-> <<>>, k |-> 0, results |-> <<>>, i |-> 0,
   newDetections |-> 0, shopeeDetections |-> 0,
   totalNewDetections |-> 0, totalShopeeDetections |-> 0, scanResults |-> <<>>,
   now |-> 0, notified |-> 0, searched |-> {}, searchFailed |-> {},
   ret |-> NoReturn, err |-> "", failedAt |-> ""]

IsFleet(r) == r.op \in {"all", "allShopee"}
IsShopeeOnly(r) == r.op \in {"shopee", "allShopee"}

\* The serial the handler is scanning: `serial` of scan.single / scan.shopee, the
\* loop variable of `for (const serial of activeSerials)` in the fleet scans.
Serial(r) == r.activeSerials[r.k]

\* What the handler keeps of a serial row it has read.
Snapshot(row) == [id |-> row.id, name |-> row.name, serialNumber |-> row.serialNumber]

Init ==
  /\ dbMode \in BOOLEAN
  /\ serials = <<>>
  /\ detections = <<>>
  /\ scanLogs = <<>>
  /\ nextSerialId = 1
  /\ nextDetectionId = 1
  /\ clock = 0
  /\ req = [p \in Procs |-> Idle]
  /\ prevScan = [serialId |-> 0, results |-> <<>>]  \* no scan yet
  /\ lastCall = [op |-> "none"]                     \* no call yet

NoRequestInFlight == \A p \in Procs : req[p].pc = "idle"

\* serials.create: the serial number is upper-cased before it is stored.
SerialsCreate(u, name, serialNumber, isActive) ==
  /\ nextSerialId <= MaxSerials
  /\ clock < MaxClock
  /\ clock' = clock + 1
  /\ serials' = createSerial([userId |-> u, name |-> name,
                              serialNumber |-> toUpperCase(serialNumber),
                              isActive |-> isActive], clock + 1)
  /\ nextSerialId' = nextSerialId + 1
  /\ UNCHANGED <<dbMode, detections, scanLogs, nextDetectionId, req>>

\* serials.update with {id, isActive}.
SerialsUpdate(u, id, isActive) ==
  /\ serials' = updateSerial(id, u, isActive)
  /\ serials' # serials
  /\ UNCHANGED <<dbMode, detections, scanLogs, nextSerialId, nextDetectionId, clock, req>>

\* A scan request arrives: scan.single({serialId, searchType}).
BeginSingle(p, u, id, searchType) ==
  /\ req[p].pc = "idle"
  /\ clock < MaxClock
  /\ clock' = clock + 1
  /\ req' = [req EXCEPT ![p] = [Idle EXCEPT !.pc = "getSerial", !.op = "single",
                                            !.user = u, !.serialId = id,
                                            !.searchType = searchType,
                                            !.now = clock + 1]]
  /\ UNCHANGED <<dbMode, store>>

\* scan.shopee({serialId}).
BeginShopee(p, u, id) ==
  /\ req[p].pc = "idle"
  /\ clock < MaxClock
  /\ clock' = clock + 1
  /\ req' = [req EXCEPT ![p] = [Idle EXCEPT !.pc = "getSerial", !.op = "shopee",
                                            !.user = u, !.serialId = id,
                                            !.searchType = "shopee",
                                            !.now = clock + 1]]
  /\ UNCHANGED <<dbMode, store>>

\* scan.all({searchType}).
BeginAll(p, u, searchType) ==
  /\ req[p].pc = "idle"
  /\ clock < MaxClock
  /\ clock' = clock + 1
  /\ req' = [req EXCEPT ![p] = [Idle EXCEPT !.pc = "listSerials", !.op = "all",
                                            !.user = u, !.searchType = searchType,
                                            !.now = clock + 1]]
  /\ UNCHANGED <<dbMode, store>>

\* scan.allShopee().
BeginAllShopee(p, u) ==
  /\ req[p].pc = "idle"
  /\ clock < MaxClock
  /\ clock' = clock + 1
  /\ req' = [req EXCEPT ![p] = [Idle EXCEPT !.pc = "listSerials", !.op = "allShopee",
                                            !.user = u, !.searchType = "shopee",
                                            !.now = clock + 1]]
  /\ UNCHANGED <<dbMode, store>>

\* const serial = await db.getSerialById(...); if (!serial) throw "Serial not found".
GetSerial(p) ==
  LET r == req[p]
      found == getSerialById(r.serialId, r.user)
  IN /\ r.pc = "getSerial"
     /\ req' = [req EXCEPT ![p] =
                  IF found = <<>>
                  THEN [r EXCEPT !.pc = "thrown", !.err = "Serial not found"]
                  ELSE [r EXCEPT !.pc = "search", !.k = 1,
                                 !.activeSerials = <<Snapshot(found[1])>>]]
     /\ UNCHANGED <<dbMode, store, clock>>

\* What the fleet scans return.
FleetReturn(r) ==
  IF r.op = "all"
  THEN [kind |-> "fleet", scannedCount |-> Len(r.activeSerials),
        totalNewDetections |-> r.totalNewDetections,
        totalShopeeDetections |-> r.totalShopeeDetections,
        results |-> r.scanResults]
  ELSE [kind |-> "fleet", scannedCount |-> Len(r.activeSerials),
        totalNewDetections |-> r.totalNewDetections,
        results |-> r.scanResults]

\* Mutant: no filter on isActive.
activeSerialsMutAll(rows) == rows

\* serials.filter((s) => s.isActive)
activeSerials(rows) == SelectSeq(rows, LAMBDA s : s.isActive)

\* const serials = await db.getUserSerials(...); the active ones are scanned in
\* listing order. With none, the loop and the notification are skipped.
ListSerials(p) ==
  LET r == req[p]
      rows == activeSerials(getUserSerials(r.user))
      act == [j \in DOMAIN rows |-> Snapshot(rows[j])]
      r1 == [r EXCEPT !.activeSerials = act, !.k = 1]
  IN /\ r.pc = "listSerials"
     /\ req' = [req EXCEPT ![p] =
                  IF act = <<>>
                  THEN [r1 EXCEPT !.pc = "returned", !.ret = FleetReturn(r1)]
                  ELSE [r1 EXCEPT !.pc = "search"]]
     /\ UNCHANGED <<dbMode, store, clock>>

\* const results = await performGoogleSearch(...) / performShopeeSearch(...): the
\* outcomes of the marketplace query and of the general query are the
\* environment's. The per-serial counters start at 0.
Search(p, shopeeOutcome, generalOutcome) ==
  LET r == req[p]
      res == IF IsShopeeOnly(r)
             THEN performShopeeSearch(shopeeOutcome)
             ELSE performGoogleSearch(r.searchType, shopeeOutcome, generalOutcome)
      failed == \/ (r.searchType \in {"all", "shopee"} /\ ~shopeeOutcome.ok)
                \/ (~IsShopeeOnly(r) /\ r.searchType \in {"all", "general"}
                    /\ ~generalOutcome.ok)
  IN /\ r.pc = "search"
     /\ req' = [req EXCEPT ![p] =
                  [r EXCEPT !.results = res, !.i = 1,
                            !.newDetections = 0, !.shopeeDetections = 0,
                            !.searched = @ \cup {Serial(r).id},
                            !.searchFailed = IF failed THEN @ \cup {Serial(r).id} ELSE @,
                            !.pc = IF res = <<>> THEN "updateLastScan" ELSE "check"]]
     /\ UNCHANGED <<dbMode, store, clock>>

\* The loop `for (const result of results)` moves to the next result, or ends.
NextResult(r) ==
  IF r.i < Len(r.results)
  THEN [r EXCEPT !.i = r.i + 1, !.pc = "check"]
  ELSE [r EXCEPT !.i = r.i + 1, !.pc = "updateLastScan"]

\* const exists = await db.checkDetectionExists(serial.id, result.url)
Check(p) ==
  LET r == req[p] IN
    /\ r.pc = "check"
    /\ req' = [req EXCEPT ![p] =
                 IF checkDetectionExists(Serial(r).id, r.results[r.i].url)
                 THEN NextResult(r)
                 ELSE [r EXCEPT !.pc = "create"]]
    /\ UNCHANGED <<dbMode, store, clock>>

\* Mutant: the identifiers are extracted from every result.
NewDetectionMutAlwaysExtract(r) ==
  LET result == r.results[r.i]
      shopeeInfo == extractShopeeSellerInfo(result.url)
  IN [serialId |-> Serial(r).id,
      sourceUrl |-> result.url,
      sourceType |-> IF IsShopeeOnly(r) THEN "shopee" ELSE result.source,
      isShopee |-> IF IsShopeeOnly(r) THEN TRUE ELSE result.isShopee,
      shopeeShopId |-> shopeeInfo.shopId,
      shopeeProductId |-> shopeeInfo.productId,
      shopeeShopName |-> shopeeInfo.shopName,
      status |-> "new"]

\* The row the scan procedures pass to db.createDetection for the current result.
NewDetection(r) ==
  LET result == r.results[r.i]
      shopeeInfo == IF IsShopeeOnly(r) \/ result.isShopee
                    THEN extractShopeeSellerInfo(result.url) ELSE NoInfo
  IN [serialId |-> Serial(r).id,
      sourceUrl |-> result.url,
      sourceType |-> IF IsShopeeOnly(r) THEN "shopee" ELSE result.source,
      isShopee |-> IF IsShopeeOnly(r) THEN TRUE ELSE result.isShopee,
      shopeeShopId |-> shopeeInfo.shopId,
      shopeeProductId |-> shopeeInfo.productId,
      shopeeShopName |-> shopeeInfo.shopName,
      status |-> "new"]

\* Mutant: a marketplace result is counted as such and not as a new detection.
CountedMutEither(r) ==
  IF ~IsShopeeOnly(r) /\ r.results[r.i].isShopee
  THEN [r EXCEPT !.shopeeDetections = @ + 1]
  ELSE [r EXCEPT !.newDetections = @ + 1]

\* newDetections++; if (result.isShopee) shopeeDetections++ (scan.shopee and
\* scan.allShopee keep no second counter).
Counted(r) ==
  [r EXCEPT !.newDetections = @ + 1,
            !.shopeeDetections =
               IF ~IsShopeeOnly(r) /\ r.results[r.i].isShopee THEN @ + 1 ELSE @]

\* await db.createDetection({...}) and the counting that follows it.
Create(p) ==
  LET r == req[p] IN
    /\ r.pc = "create"
    /\ detections' = createDetection(NewDetection(r), r.now)
    /\ nextDetectionId' = nextDetectionId + 1
    /\ req' = [req EXCEPT ![p] = NextResult(Counted(r))]
    /\ UNCHANGED <<dbMode, serials, scanLogs, nextSerialId, clock>>

\* The scanType argument the scan procedures give db.updateSerialLastScan.
LastScanType(r) ==
  IF IsShopeeOnly(r) THEN "shopee"
  ELSE IF r.searchType = "shopee" THEN "shopee"
  ELSE IF r.searchType = "general" THEN "general" ELSE "all"

\* await db.updateSerialLastScan(serial.id, ...)
UpdateLastScan(p) ==
  LET r == req[p] IN
    /\ r.pc = "updateLastScan"
    /\ serials' = updateSerialLastScan(Serial(r).id, LastScanType(r), r.now)
    /\ req' = [req EXCEPT ![p].pc = "scanLog"]
    /\ UNCHANGED <<dbMode, detections, scanLogs, nextSerialId, nextDetectionId, clock>>

\* The scan_logs row of the serial just scanned.
NewScanLog(r) ==
  [serialId |-> Serial(r).id,
   scanType |-> IF IsShopeeOnly(r) \/ r.searchType = "shopee" THEN "shopee" ELSE "manual",
   resultsCount |-> Len(r.results),
   newDetections |-> r.newDetections,
   shopeeDetections |-> IF IsShopeeOnly(r) THEN r.newDetections ELSE r.shopeeDetections]

\* What scan.single and scan.shopee return.
ScanReturn(r) ==
  [kind |-> "scan", totalResults |-> Len(r.results),
   newDetections |-> r.newDetections,
   shopeeDetections |-> IF IsShopeeOnly(r) THEN r.newDetections ELSE r.shopeeDetections]

\* Mutant: the total of new detections is that of the last serial.
AccumulatedMutLastOnly(r) ==
  [r EXCEPT !.totalNewDetections = r.newDetections,
            !.totalShopeeDetections = IF r.op = "all" THEN @ + r.shopeeDetections ELSE @,
            !.scanResults =
               Append(@, IF r.op = "all"
                         THEN [serialId |-> Serial(r).id, name |-> Serial(r).name,
                               newDetections |-> r.newDetections,
                               shopeeDetections |-> r.shopeeDetections]
                         ELSE [serialId |-> Serial(r).id, name |-> Serial(r).name,
                               newDetections |-> r.newDetections])]

\* The fleet loop's bookkeeping after one serial: the totals and scanResults.push.
Accumulated(r) ==
  [r EXCEPT !.totalNewDetections = @ + r.newDetections,
            !.totalShopeeDetections = IF r.op = "all" THEN @ + r.shopeeDetections ELSE @,
            !.scanResults =
               Append(@, IF r.op = "all"
                         THEN [serialId |-> Serial(r).id, name |-> Serial(r).name,
                               newDetections |-> r.newDetections,
                               shopeeDetections |-> r.shopeeDetections]
                         ELSE [serialId |-> Serial(r).id, name |-> Serial(r).name,
                               newDetections |-> r.newDetections])]

\* Mutant: the notification is sent whatever the count of new detections.
AfterScanLogMutNotifyAlways(r) ==
  IF ~IsFleet(r)
  THEN [r EXCEPT !.pc = "notify"]
  ELSE LET a == Accumulated(r) IN
       IF a.k < Len(a.activeSerials) THEN [a EXCEPT !.k = a.k + 1, !.pc = "search"]
       ELSE [a EXCEPT !.pc = "notify"]

\* After the scan log of a serial: the single scans notify or return; the fleet
\* scans go on to the next active serial and notify or return after the last.
AfterScanLog(r) ==
  IF ~IsFleet(r)
  THEN IF r.newDetections > 0 THEN [r EXCEPT !.pc = "notify"]
       ELSE [r EXCEPT !.pc = "returned", !.ret = ScanReturn(r)]
  ELSE LET a == Accumulated(r) IN
       IF a.k < Len(a.activeSerials) THEN [a EXCEPT !.k = a.k + 1, !.pc = "search"]
       ELSE IF a.totalNewDetections > 0 THEN [a EXCEPT !.pc = "notify"]
       ELSE [a EXCEPT !.pc = "returned", !.ret = FleetReturn(a)]

\* await db.createScanLog({...})
ScanLog(p) ==
  LET r == req[p] IN
    /\ r.pc = "scanLog"
    /\ scanLogs' = createScanLog(NewScanLog(r), r.now)
    /\ req' = [req EXCEPT ![p] = AfterScanLog(r)]
    /\ UNCHANGED <<dbMode, serials, detections, nextSerialId, nextDetectionId, clock>>

\* await notifyOwner({title, content}) delivers, and the procedure returns.
Notify(p) ==
  LET r == req[p] IN
    /\ r.pc = "notify"
    /\ req' = [req EXCEPT ![p] =
                 [r EXCEPT !.notified = @ + 1, !.pc = "returned",
                           !.ret = IF IsFleet(r) THEN FleetReturn(r) ELSE ScanReturn(r)]]
    /\ UNCHANGED <<dbMode, store, clock>>

\* await notifyOwner({title, content}) rejects: nothing catches it.
NotifyFails(p) ==
  LET r == req[p] IN
    /\ r.pc = "notify"
    /\ req' = [req EXCEPT ![p] =
                 [r EXCEPT !.notified = @ + 1, !.pc = "thrown",
                           !.err = "notification failed"]]
    /\ UNCHANGED <<dbMode, store, clock>>

\* The awaited storage calls of the scan procedures.
StoragePcs == {"getSerial", "listSerials", "check", "create", "updateLastScan", "scanLog"}

\* A query of the database rejects (the in-memory store cannot fail): the scan
\* procedures have no try/catch, so the rejection ends the request.
StorageFails(p) ==
  /\ dbMode
  /\ req[p].pc \in StoragePcs
  /\ req' = [req EXCEPT ![p].pc = "thrown", ![p].err = "storage failed",
                         ![p].failedAt = req[p].pc]
  /\ UNCHANGED <<dbMode, store, clock>>

\* The response is sent and the handler's frame is gone.
Finish(p) ==
  /\ req[p].pc \in {"returned", "thrown"}
  /\ req' = [req EXCEPT ![p] = Idle]
  /\ UNCHANGED <<dbMode, store, clock>>

(* ------------------- detections and serials router -------------------- *)

NoCall == [op |-> "none"]
Statuses == {"new", "processed", "ignored"}

\* detections.updateStatus({id, status}): one awaited statement, no owner check.
\* The call is remembered with the detections before it.
DetectionsUpdateStatus(id, status) ==
  /\ detections' = updateDetectionStatus(id, status)
  /\ lastCall' = [op |-> "updateStatus", id |-> id, status |-> status,
                  detections |-> detections]
  /\ UNCHANGED <<dbMode, serials, scanLogs, nextSerialId, nextDetectionId, clock, req>>

\* detections.list({filter}): a query; the call is remembered with its result.
DetectionsList(u, filter) ==
  /\ lastCall' = [op |-> "list", user |-> u, filter |-> filter,
                  result |-> getDetectionsByUser(u, filter)]
  /\ UNCHANGED <<dbMode, store, clock, req>>

\* serials.delete({id}) arrives; the call is remembered with the store before it.
BeginDelete(p, u, id) ==
  /\ req[p].pc = "idle"
  /\ req' = [req EXCEPT ![p] = [Idle EXCEPT !.pc = "delete", !.op = "delete",
                                            !.user = u, !.serialId = id]]
  /\ lastCall' = [op |-> "delete", user |-> u, id |-> id, serials |-> serials,
                  detections |-> detections, scanLogs |-> scanLogs]
  /\ UNCHANGED <<dbMode, store, clock>>

\* deleteSerial: without a database everything happens in one turn; with one,
\* the first awaited statement deletes the detections of that serial id.
DeleteSerial(p) ==
  LET r == req[p] IN
    /\ r.pc = "delete"
    /\ IF dbMode
       THEN /\ detections' = deleteDetectionRows(r.serialId)
            /\ req' = [req EXCEPT ![p].pc = "deleteScanLogs"]
            /\ UNCHANGED serials
       ELSE /\ serials' = deleteSerialInMemory(r.serialId, r.user).serials
            /\ detections' = deleteSerialInMemory(r.serialId, r.user).detections
            /\ req' = [req EXCEPT ![p].pc = "returned", ![p].ret = [kind |-> "success"]]
    /\ UNCHANGED <<dbMode, scanLogs, nextSerialId, nextDetectionId, clock, lastCall>>

\* await db.delete(scanLogs)...
DeleteScanLogs(p) ==
  /\ req[p].pc = "deleteScanLogs"
  /\ scanLogs' = deleteScanLogRows(req[p].serialId)
  /\ req' = [req EXCEPT ![p].pc = "deleteSerialRow"]
  /\ UNCHANGED <<dbMode, serials, detections, nextSerialId, nextDetectionId, clock, lastCall>>

\* await db.delete(nccSerials)...; return {success: true}.
DeleteSerialRow(p) ==
  /\ req[p].pc = "deleteSerialRow"
  /\ serials' = deleteSerialRow(req[p].serialId, req[p].user)
  /\ req' = [req EXCEPT ![p].pc = "returned", ![p].ret = [kind |-> "success"]]
  /\ UNCHANGED <<dbMode, detections, scanLogs, nextSerialId, nextDetectionId, clock, lastCall>>

\* One of the three delete statements rejects: the statements before it stay done.
DeleteFails(p) ==
  /\ dbMode
  /\ req[p].pc \in {"delete", "deleteScanLogs", "deleteSerialRow"}
  /\ req' = [req EXCEPT ![p].pc = "thrown", ![p].err = "storage failed",
                         ![p].failedAt = req[p].pc]
  /\ UNCHANGED <<dbMode, store, clock, lastCall>>

(* --------------------------- specifications --------------------------- *)

\* All sequences over S of length at most n.
SeqsUpTo(S, n) == UNION {[1..m -> S] : m \in 0..n}

\* What a search query may answer in the runs explored.
ScanUrls == {UrlProduct, UrlOther}
Answers == {SearchOk(items) : items \in SeqsUpTo(ScanUrls, MaxResults)} \cup {SearchError}

SerialIds == 1..MaxSerials

\* The answers in the runs with two requests in flight.
RaceAnswers == {SearchOk(items) : items \in SeqsUpTo({UrlOther}, MaxResults)}

\* The steps of the scan request served by process p.
ScanStep(p, shopeeAnswers, generalAnswers) ==
  \/ \E u \in Users, id \in SerialIds, t \in SearchTypes : BeginSingle(p, u, id, t)
  \/ \E u \in Users, id \in SerialIds : BeginShopee(p, u, id)
  \/ \E u \in Users, t \in SearchTypes : BeginAll(p, u, t)
  \/ \E u \in Users : BeginAllShopee(p, u)
  \/ GetSerial(p)
  \/ ListSerials(p)
  \/ \E so \in shopeeAnswers, go \in generalAnswers : Search(p, so, go)
  \/ Check(p)
  \/ Create(p)
  \/ UpdateLastScan(p)
  \/ ScanLog(p)
  \/ Notify(p)

\* The failures of the collaborators of the request served by process p.
FailStep(p) ==
  \/ NotifyFails(p)
  \/ StorageFails(p)

\* The serial management requests, served while no scan is in flight.
ManageStep ==
  /\ NoRequestInFlight
  /\ \/ \E u \in Users, n \in Names, sn \in SerialInputs, a \in BOOLEAN :
          SerialsCreate(u, n, sn, a)
     \/ \E u \in Users, id \in SerialIds, a \in BOOLEAN : SerialsUpdate(u, id, a)

\* Requests are served one at a time: at most one scan is in flight.
Next ==
  /\ \/ ScanStep("p1", Answers, Answers)
     \/ FailStep("p1")
     \/ Finish("p1")
     \/ ManageStep
  /\ UNCHANGED <<prevScan, lastCall>>

Spec == Init /\ [][Next]_vars

\* The same runs, with the history of the last scan that returned: its serial and
\* the result list it was given. A request that throws leaves no history.
NoScan == [serialId |-> 0, results |-> <<>>]

Remember(r) ==
  IF r.pc = "returned" /\ r.activeSerials # <<>>
  THEN [serialId |-> Serial(r).id, results |-> r.results]
  ELSE NoScan

NextTwice ==
  \/ (ScanStep("p1", Answers, Answers) \/ FailStep("p1") \/ ManageStep)
       /\ UNCHANGED <<prevScan, lastCall>>
  \/ Finish("p1") /\ prevScan' = Remember(req["p1"]) /\ UNCHANGED lastCall

SpecTwice == Init /\ [][NextTwice]_vars

\* The end-to-end scenario: the marketplace query answers with a product page and
\* a page of another site, the general query with that other page. No
\* collaborator fails.
E2EShopeeAnswer == SearchOk(<<UrlProduct, UrlOther>>)
E2EGeneralAnswer == SearchOk(<<UrlOther>>)

NextE2E ==
  /\ \/ ScanStep("p1", {E2EShopeeAnswer}, {E2EGeneralAnswer})
     \/ Finish("p1")
     \/ ManageStep
  /\ UNCHANGED <<prevScan, lastCall>>

SpecE2E == Init /\ [][NextE2E]_vars

\* Concurrent requests: the handlers of both processes interleave at their awaits,
\* whatever serials they scan. No collaborator fails.
NextRace ==
  /\ \/ \E p \in Procs : ScanStep(p, RaceAnswers, RaceAnswers) \/ Finish(p)
     \/ ManageStep
  /\ UNCHANGED <<prevScan, lastCall>>

SpecRace == Init /\ [][NextRace]_vars

\* Concurrent scans of different serials. The store holds two serials, created
\* one after the other by the same user or by two users.
InitApart ==
  /\ dbMode \in BOOLEAN
  /\ \E u1 \in Users, u2 \in Users, a1 \in BOOLEAN, a2 \in BOOLEAN :
       serials = << [id |-> 1, userId |-> u1, name |-> "TV box",
                     serialNumber |-> <<"C", "C", "A", "1">>, isActive |-> a1,
                     lastScanAt |-> Never, lastShopeeScanAt |-> Never,
                     createdAt |-> 0],
                    [id |-> 2, userId |-> u2, name |-> "TV box",
                     serialNumber |-> <<"C", "C", "A", "1">>, isActive |-> a2,
                     lastScanAt |-> Never, lastShopeeScanAt |-> Never,
                     createdAt |-> 1] >>
  /\ detections = <<>>
  /\ scanLogs = <<>>
  /\ nextSerialId = 3
  /\ nextDetectionId = 1
  /\ clock = 1
  /\ req = [p \in Procs |-> Idle]
  /\ prevScan = NoScan
  /\ lastCall = [op |-> "none"]

\* The serials a request is about: the one it names, or for a fleet scan the
\* caller's active serials.
Targets(r) ==
  IF r.pc = "idle" THEN {}
  ELSE IF IsFleet(r)
       THEN {serials[k].id : k \in {j \in DOMAIN serials :
                                      serials[j].userId = r.user /\ serials[j].isActive}}
       ELSE {r.serialId}

ApartAnswers == {SearchOk(<<>>), SearchOk(<<UrlOther>>)}

\* The handlers of both processes interleave at their awaits; a request is only
\* admitted while the other process scans none of its serials.
NextApart ==
  /\ \/ \E p \in Procs :
          /\ ScanStep(p, ApartAnswers, ApartAnswers)
          /\ \A q \in Procs \ {p} : Targets(req'[p]) \cap Targets(req[q]) = {}
     \/ \E p \in Procs : Finish(p)
     \/ NoRequestInFlight
          /\ \E u \in Users, id \in SerialIds, a \in BOOLEAN : SerialsUpdate(u, id, a)
  /\ UNCHANGED <<prevScan, lastCall>>

SpecApart == InitApart /\ [][NextApart]_vars

\* Serial numbers as typed in serials.update.
NumberInputs == SerialInputs \cup {<<"a", "1">>, <<"A", "c", "1">>}

\* serials.update with {id, serialNumber}: the serial number is upper-cased before
\* it is stored. The call is remembered as typed.
SerialsUpdateNumber(u, id, serialNumber) ==
  /\ serials' = updateSerialNumber(id, u, toUpperCase(serialNumber))
  /\ lastCall' = [op |-> "updateNumber", user |-> u, id |-> id,
                  serialNumber |-> serialNumber]
  /\ UNCHANGED <<dbMode, detections, scanLogs, nextSerialId, nextDetectionId, clock, req>>

\* Any sequence of serials.create and serials.update calls.
NextSerials ==
  /\ \/ ManageStep /\ lastCall' = NoCall
     \/ \E u \in Users, id \in SerialIds, sn \in NumberInputs :
          SerialsUpdateNumber(u, id, sn)
  /\ UNCHANGED prevScan

SpecSerials == Init /\ [][NextSerials]_vars

(* --------------------------- dashboard.stats --------------------------- *)

RecentLimit == 5
Pending == -1

\* .slice(0, 5) / .limit(5)
Limit(rows) == SubSeq(rows, 1, IF Len(rows) < RecentLimit THEN Len(rows) ELSE RecentLimit)

\* The detections whose serialId is one of serialIds.
detectionsIn(serialIds) == SelectSeq(detections, LAMBDA d : d.serialId \in serialIds)

countTotal(serialIds) == Len(detectionsIn(serialIds))

\* Mutant: the status is not compared.
countNewMutAnyStatus(serialIds) == Len(detectionsIn(serialIds))

countNew(serialIds) ==
  Len(SelectSeq(detectionsIn(serialIds), LAMBDA d : d.status = "new"))

countShopee(serialIds) ==
  Len(SelectSeq(detectionsIn(serialIds), LAMBDA d : d.isShopee))

\* getDashboardStats without a database: one synchronous computation.
getDashboardStatsInMemory(userId) ==
  LET userSerials == SelectSeq(serials, LAMBDA s : s.userId = userId)
      ids == {userSerials[k].id : k \in DOMAIN userSerials}
  IN [kind |-> "stats",
      totalSerials |-> Len(userSerials),
      activeSerials |-> Len(activeSerials(userSerials)),
      totalDetections |-> countTotal(ids),
      newDetections |-> countNew(ids),
      shopeeDetections |-> countShopee(ids),
      recentDetections |-> Limit(SortByDetectedDesc(detectionsIn(ids)))]

\* The serial ids the database queries of a stats request are restricted to.
StatsIds(r) == {r.activeSerials[k].id : k \in DOMAIN r.activeSerials}

\* dashboard.stats arrives.
BeginStats(p, u) ==
  /\ req[p].pc = "idle"
  /\ req' = [req EXCEPT ![p] = [Idle EXCEPT !.pc = "stats", !.op = "stats", !.user = u]]
  /\ UNCHANGED <<dbMode, store, clock>>

\* Without a database the statistics are computed in one turn. With one, the
\* user's serials are read first; with none of them the zero record is returned.
StatsSerials(p) ==
  LET r == req[p]
      rows == getUserSerials(r.user)
  IN /\ r.pc = "stats"
     /\ req' = [req EXCEPT ![p] =
          IF ~dbMode
          THEN [r EXCEPT !.pc = "returned", !.ret = getDashboardStatsInMemory(r.user)]
          ELSE IF rows = <<>>
          THEN [r EXCEPT !.pc = "returned",
                         !.ret = [kind |-> "stats", totalSerials |-> 0,
                                  activeSerials |-> 0, totalDetections |-> 0,
                                  newDetections |-> 0, shopeeDetections |-> 0,
                                  recentDetections |-> <<>>]]
          ELSE [r EXCEPT !.pc = "statsCounts",
                         !.activeSerials = [j \in DOMAIN rows |-> Snapshot(rows[j])],
                         !.ret = [kind |-> "stats", totalSerials |-> Len(rows),
                                  activeSerials |-> Len(activeSerials(rows)),
                                  totalDetections |-> Pending,
                                  newDetections |-> Pending,
                                  shopeeDetections |-> Pending,
                                  recentDetections |-> <<>>]]]
     /\ UNCHANGED <<dbMode, store, clock>>

CountFields == {"totalDetections", "newDetections", "shopeeDetections"}

\* One of the three COUNT(*) queries of Promise.all answers; they answer in any
\* order.
StatsCount(p, field) ==
  LET r == req[p]
      n == CASE field = "totalDetections" -> countTotal(StatsIds(r))
             [] field = "newDetections" -> countNew(StatsIds(r))
             [] OTHER -> countShopee(StatsIds(r))
      ret == [r.ret EXCEPT ![field] = n]
  IN /\ r.pc = "statsCounts"
     /\ r.ret[field] = Pending
     /\ req' = [req EXCEPT ![p] =
                  [r EXCEPT !.ret = ret,
                            !.pc = IF \A f \in CountFields : ret[f] # Pending
                                   THEN "statsRecent" ELSE "statsCounts"]]
     /\ UNCHANGED <<dbMode, store, clock>>

\* The query of the five latest detections answers, and the record is returned.
StatsRecent(p) ==
  LET r == req[p] IN
    /\ r.pc = "statsRecent"
    /\ req' = [req EXCEPT ![p] =
                 [r EXCEPT !.pc = "returned",
                           !.ret = [r.ret EXCEPT !.recentDetections =
                                      Limit(SortByDetectedDesc(detectionsIn(StatsIds(r))))]]]
    /\ UNCHANGED <<dbMode, store, clock>>

StatsStep(p) ==
  \/ \E u \in Users : BeginStats(p, u)
  \/ StatsSerials(p)
  \/ \E f \in CountFields : StatsCount(p, f)
  \/ StatsRecent(p)

(* -------------------------- server/local-auth.ts ------------------------ *)

\* Passwords have at most MaxPassword characters; the salt has SaltBytes bytes
\* (randomBytes(16) gives 16) and a digest DigestBytes (SHA-256 gives 32), each
\* byte written as two hex characters.
MaxPassword == 2
SaltBytes == 1
DigestBytes == 2

Colon == ":"
HexDigits == <<"0", "1", "2", "3", "4", "5", "6", "7", "8", "9",
               "a", "b", "c", "d", "e", "f">>
IsHex(c) == \E k \in DOMAIN HexDigits : HexDigits[k] = c

\* The characters of the passwords and salts of the runs.
PasswordChars == {"p", Colon}
SaltChars == {"0", "a"}
CharCode(c) ==
  CASE c = "0" -> 1
    [] c = "a" -> 2
    [] c = "p" -> 3
    [] OTHER -> 4

RECURSIVE TextCode(_)
TextCode(s) ==
  IF s = <<>> THEN 0 ELSE TextCode(SubSeq(s, 1, Len(s) - 1)) * 5 + CharCode(s[Len(s)])

RECURSIVE ToHex(_, _)
ToHex(n, width) ==
  IF width = 0 THEN <<>>
  ELSE Append(ToHex(n \div 16, width - 1), HexDigits[(n % 16) + 1])

\* createHash("sha256").update(text).digest("hex"): a hex string of fixed length,
\* determined by the text; different texts of the runs have different digests.
sha256(text) == ToHex(TextCode(text), 2 * DigestBytes)

\* Mutant: the salt is left out of the digest.
hashPasswordMutUnsalted(password, salt) == salt \o <<Colon>> \o sha256(password)

\* hashPassword, with the salt that randomBytes(16).toString("hex") drew.
hashPassword(password, salt) == salt \o <<Colon>> \o sha256(salt \o password)

\* String.prototype.split(":")
RECURSIVE split(_)
split(s) ==
  LET k == FindFrom(s, 1, {Colon}) IN
    IF k > Len(s) THEN <<s>>
    ELSE <<SubSeq(s, 1, k - 1)>> \o split(SubSeq(s, k + 1, Len(s)))

\* Buffer.from(text, "hex"): the bytes of the leading pairs of hex digits.
RECURSIVE BufferFromHex(_)
BufferFromHex(s) ==
  IF Len(s) < 2 \/ ~IsHex(s[1]) \/ ~IsHex(s[2]) THEN <<>>
  ELSE <<SubSeq(s, 1, 2)>> \o BufferFromHex(SubSeq(s, 3, Len(s)))

\* timingSafeEqual throws a RangeError on buffers of different lengths.
timingSafeEqual(a, b) ==
  IF Len(a) # Len(b) THEN [threw |-> TRUE, value |-> FALSE]
  ELSE [threw |-> FALSE, value |-> a = b]

\* verifyPassword: the value returned, or "throws" if an exception escaped (the
\* only throwing call is inside the try block). `undefined` is the empty text.
verifyPassword(password, storedHash) ==
  LET parts == split(storedHash)
      salt == parts[1]
      hash == IF Len(parts) >= 2 THEN parts[2] ELSE <<>>
  IN IF salt = <<>> \/ hash = <<>> THEN FALSE
     ELSE LET inputHash == sha256(salt \o password)
              t == timingSafeEqual(BufferFromHex(hash), BufferFromHex(inputHash))
          IN IF t.threw THEN FALSE ELSE t.value

Passwords == SeqsUpTo(PasswordChars, MaxPassword)
Salts == {s \in SeqsUpTo(SaltChars, 2 * SaltBytes) : Len(s) = 2 * SaltBytes}

\* Stored values that no hashPassword call wrote.
OtherStored ==
  {<<>>, <<"p">>, <<Colon>>, <<"0", "a", Colon>>, <<Colon, "0", "0", "0", "0">>,
   <<"0", "a", Colon, "p", "p">>, <<"0", "a", Colon, "0", "0">>}

\* A password is hashed; the call and the value to store are remembered.
HashPassword(password, salt) ==
  /\ lastCall' = [op |-> "hashPassword", password |-> password,
                  stored |-> hashPassword(password, salt), result |-> TRUE]
  /\ UNCHANGED <<dbMode, store, clock, req>>

\* A password is verified against the value stored by the last hashPassword call,
\* or against some other stored value.
VerifyPassword(password, storedHash) ==
  /\ lastCall' = [op |-> "verifyPassword", password |-> password,
                  stored |-> storedHash, result |-> verifyPassword(password, storedHash)]
  /\ UNCHANGED <<dbMode, store, clock, req>>

NextAuth ==
  /\ \/ \E pw \in Passwords, salt \in Salts : HashPassword(pw, salt)
     \/ /\ lastCall.op \in {"hashPassword", "verifyPassword"}
        /\ \E pw \in Passwords : VerifyPassword(pw, lastCall.stored)
     \/ \E pw \in Passwords, st \in OtherStored : VerifyPassword(pw, st)
  /\ UNCHANGED prevScan

SpecAuth == Init /\ [][NextAuth]_vars

\* The management of detections and serials between scans: status updates,
\* listings and deletions, one request at a time. A call is remembered until
\* the next step that is not its own.
ManageAnswers == {SearchOk(items) : items \in SeqsUpTo(ScanUrls, 1)}

DeleteStep(p) ==
  \/ \E u \in Users, id \in SerialIds : BeginDelete(p, u, id)
  \/ DeleteSerial(p)
  \/ DeleteScanLogs(p)
  \/ DeleteSerialRow(p)
  \/ DeleteFails(p)

DetectionIds == 1..(2 * MaxSerials)

NextManage ==
  /\ \/ (ScanStep("p1", ManageAnswers, ManageAnswers) \/ Finish("p1") \/ ManageStep)
          /\ lastCall' = NoCall
     \/ NoRequestInFlight
          /\ \E id \in DetectionIds, t \in Statuses : DetectionsUpdateStatus(id, t)
     \/ NoRequestInFlight
          /\ \E u \in Users, f \in Filters : DetectionsList(u, f)
     \/ DeleteStep("p1")
  /\ UNCHANGED prevScan

SpecManage == Init /\ [][NextManage]_vars

\* The classification of results: the queries answer with at most one URL each,
\* drawn from product pages, shop pages, pages of other sites, deeper paths and a
\* string that is no URL. The answers of the last search are remembered while
\* its results are processed. No collaborator fails.
ClassifyUrls ==
  {UrlProduct, UrlOther, UrlShop, UrlNoScheme, UrlInfixOnly, UrlDeep, UrlQuery}
ClassifyAnswers == {SearchOk(items) : items \in SeqsUpTo(ClassifyUrls, 1)}

NextClassify ==
  /\ \/ ScanStep("p1", {}, {}) /\ UNCHANGED lastCall
     \/ \E so \in ClassifyAnswers, go \in ClassifyAnswers :
          /\ Search("p1", so, go)
          /\ lastCall' = [op |-> "search", shopee |-> so.items, general |-> go.items]
     \/ Finish("p1") /\ lastCall' = NoCall
     \/ ManageStep /\ UNCHANGED lastCall
  /\ UNCHANGED prevScan

SpecClassify == Init /\ [][NextClassify]_vars

\* Requests are served one at a time: scans, serial management, status updates
\* and the dashboard.
NextStats ==
  /\ \/ (ScanStep("p1", ManageAnswers, ManageAnswers) \/ Finish("p1") \/ ManageStep)
          /\ lastCall' = NoCall
     \/ NoRequestInFlight
          /\ \E id \in DetectionIds, t \in Statuses : DetectionsUpdateStatus(id, t)
     \/ StatsStep("p1") /\ lastCall' = NoCall
  /\ UNCHANGED prevScan

SpecStats == Init /\ [][NextStats]_vars

\* A scan served by one process while the other serves serials.delete: the two
\* handlers interleave at their awaits.
NextDeleteRace ==
  /\ \/ (ScanStep("p1", ApartAnswers, ApartAnswers) \/ ManageStep) /\ UNCHANGED lastCall
     \/ (\E p \in Procs : Finish(p)) /\ lastCall' = NoCall
     \/ DeleteStep("p2")
  /\ UNCHANGED prevScan

SpecDeleteRace == Init /\ [][NextDeleteRace]_vars

(* ------------------------------ properties ---------------------------- *)

\* The requests in flight and what they have done: a request's reads of the
\* clock are its own (r.now), so the rows it wrote are told by their timestamps.
Running == {p \in Procs : req[p].pc # "idle"}
Scanning(r) == r.pc \in {"check", "create", "updateLastScan", "scanLog"}
DetectionsBy(r, serialId) ==
  {k \in DOMAIN detections :
     detections[k].serialId = serialId /\ detections[k].detectedAt = r.now}
ScanLogsBy(r, serialId) ==
  {k \in DOMAIN scanLogs :
     scanLogs[k].serialId = serialId /\ scanLogs[k].completedAt = r.now}
SameKey(d, e) == d.serialId = e.serialId /\ d.sourceUrl = e.sourceUrl

\* C1. Uniqueness: with at most one scan in flight, no two detection rows have
\* the same serialId and the same sourceUrl, also when one batch of results
\* holds a URL more than once.
C1_UniqueDetections ==
  \A i, j \in DOMAIN detections : SameKey(detections[i], detections[j]) => i = j

\* A scan whose batch held the same URL twice has recorded it.
C1_Witness ==
  \E p \in Procs :
    LET r == req[p] IN
      /\ r.pc = "updateLastScan"
      /\ \E i, j \in DOMAIN r.results :
           /\ i < j
           /\ r.results[i].url = r.results[j].url
           /\ \E k \in DetectionsBy(r, Serial(r).id) :
                detections[k].sourceUrl = r.results[i].url

\* C4. Counter consistency: in every scan run, in every scan log row and in
\* every returned result, 0 <= shopeeDetections <= newDetections <= totalResults.
Ordered(shopee, new, total) == 0 <= shopee /\ shopee <= new /\ new <= total

C4_CounterConsistency ==
  /\ \A p \in Procs :
       LET r == req[p] IN
         /\ (Scanning(r) \/ (~IsFleet(r) /\ r.pc = "notify"))
              => Ordered(r.shopeeDetections, r.newDetections, Len(r.results))
         /\ (r.pc = "returned" /\ ~IsFleet(r))
              => Ordered(r.ret.shopeeDetections, r.ret.newDetections, r.ret.totalResults)
         /\ (r.op = "all")
              => /\ \A e \in DOMAIN r.scanResults :
                      Ordered(r.scanResults[e].shopeeDetections,
                              r.scanResults[e].newDetections,
                              r.scanResults[e].newDetections)
                 /\ Ordered(r.totalShopeeDetections, r.totalNewDetections,
                            r.totalNewDetections)
  /\ \A k \in DOMAIN scanLogs :
       Ordered(scanLogs[k].shopeeDetections, scanLogs[k].newDetections,
               scanLogs[k].resultsCount)

\* A run returns with all three counters different and not zero.
C4_Witness ==
  \E p \in Procs :
    /\ req[p].pc = "returned"
    /\ req[p].op = "single"
    /\ 0 < req[p].ret.shopeeDetections
    /\ req[p].ret.shopeeDetections < req[p].ret.newDetections
    /\ req[p].ret.newDetections < req[p].ret.totalResults

\* The total of new detections a run reports or would report.
TotalNew(r) == IF IsFleet(r) THEN r.totalNewDetections ELSE r.newDetections

\* C6. Notification count: a run that returns has called notifyOwner once when
\* its total of new detections is positive and never when it is zero; no run
\* calls it more than once (a fleet run does not notify per serial), and no run
\* calls it before its last serial is done.
C6_NotifyOncePerRun ==
  \A p \in Procs :
    LET r == req[p] IN
      /\ r.notified <= 1
      /\ r.pc = "returned" => r.notified = (IF TotalNew(r) > 0 THEN 1 ELSE 0)
      /\ r.notified = 1 => r.pc \in {"returned", "thrown"} /\ TotalNew(r) > 0

\* A fleet run over two serials, each with new detections, has notified once.
C6_Witness ==
  \E p \in Procs :
    LET r == req[p] IN
      /\ r.pc = "returned"
      /\ IsFleet(r)
      /\ Len(r.scanResults) = 2
      /\ \A e \in DOMAIN r.scanResults : r.scanResults[e].newDetections > 0
      /\ r.notified = 1

\* C8. NotFound: scan.single and scan.shopee fail with "Serial not found"
\* exactly when no serial with that id belongs to the caller, and the failed
\* request has searched nothing, notified nobody and written nothing.
C8_NotFoundUntouched ==
  \A p \in Procs :
    LET r == req[p] IN
      /\ (r.op \in {"single", "shopee"} /\ r.pc \notin {"idle", "getSerial"}
          /\ r.failedAt # "getSerial")
           => (r.err = "Serial not found"
                 <=> ~\E k \in DOMAIN serials :
                        serials[k].id = r.serialId /\ serials[k].userId = r.user)
      /\ r.err = "Serial not found"
           => /\ r.pc = "thrown"
              /\ r.searched = {}
              /\ r.notified = 0
              /\ \A k \in DOMAIN detections : detections[k].detectedAt # r.now
              /\ \A k \in DOMAIN scanLogs : scanLogs[k].completedAt # r.now
              /\ \A k \in DOMAIN serials :
                   serials[k].lastScanAt # r.now /\ serials[k].lastShopeeScanAt # r.now

\* A scan of another user's serial, which has detections, has failed.
C8_Witness ==
  \E p \in Procs :
    LET r == req[p] IN
      /\ r.err = "Serial not found"
      /\ \E k \in DOMAIN serials : serials[k].id = r.serialId /\ serials[k].userId # r.user
      /\ \E k \in DOMAIN detections : detections[k].serialId = r.serialId

\* C9. Inactive serials are never fleet-scanned: a fleet run has searched no
\* inactive serial and has written no detection, scan log or timestamp of one,
\* and its scannedCount is the number of the user's active serials.
C9_InactiveNeverScanned ==
  \A p \in Procs :
    LET r == req[p] IN
      IsFleet(r) =>
        /\ \A k \in DOMAIN serials :
             ~serials[k].isActive =>
               /\ serials[k].id \notin r.searched
               /\ DetectionsBy(r, serials[k].id) = {}
               /\ ScanLogsBy(r, serials[k].id) = {}
               /\ serials[k].lastScanAt # r.now
               /\ serials[k].lastShopeeScanAt # r.now
        /\ r.pc = "returned" =>
             r.ret.scannedCount =
               Cardinality({k \in DOMAIN serials :
                              serials[k].userId = r.user /\ serials[k].isActive})

\* A fleet run of a user with an active and an inactive serial has recorded a
\* detection and returned.
C9_Witness ==
  \E p \in Procs :
    LET r == req[p] IN
      /\ r.pc = "returned"
      /\ IsFleet(r)
      /\ r.ret.scannedCount = 1
      /\ r.ret.totalNewDetections > 0
      /\ \E k \in DOMAIN serials : serials[k].userId = r.user /\ ~serials[k].isActive

\* C2. Idempotence: a scan of a serial that follows, with nothing in between,
\* a returned scan of the same serial given the identical result list creates
\* no detection, counts none, sends no notification and returns 0 and 0.
C2_SecondScanFindsNothing ==
  \A p \in Procs :
    LET r == req[p] IN
      ( /\ r.pc \in {"check", "create", "updateLastScan", "scanLog", "notify", "returned"}
        /\ r.k = 1
        /\ r.activeSerials # <<>>
        /\ prevScan.serialId = Serial(r).id
        /\ prevScan.results = r.results )
      => /\ r.pc \notin {"create", "notify"}
         /\ r.newDetections = 0
         /\ r.shopeeDetections = 0
         /\ DetectionsBy(r, Serial(r).id) = {}
         /\ (r.pc = "returned" /\ ~IsFleet(r))
              => r.ret.newDetections = 0 /\ r.ret.shopeeDetections = 0
         /\ (r.pc = "returned" /\ IsFleet(r)) => r.ret.totalNewDetections = 0

\* The second of two scans with the same two results has returned, and the
\* first one (the request before it) had recorded a detection.
C2_Witness ==
  \E p \in Procs :
    LET r == req[p] IN
      /\ r.pc = "returned"
      /\ r.k = 1
      /\ r.activeSerials # <<>>
      /\ prevScan.serialId = Serial(r).id
      /\ prevScan.results = r.results
      /\ Len(r.results) >= 2
      /\ \E k \in DOMAIN detections :
           /\ detections[k].serialId = Serial(r).id
           /\ detections[k].detectedAt = r.now - 1
           /\ detections[k].sourceUrl = r.results[1].url

\* C5. Fleet partial-failure tolerance, as claimed: a fleet run never throws
\* because a storage call failed for one of its serials, and when it returns,
\* the entry of a serial whose search failed is flagged as failed.
C5_FleetToleratesFailure ==
  \A p \in Procs :
    LET r == req[p] IN
      IsFleet(r) =>
        /\ ~(r.pc = "thrown"
             /\ r.failedAt \in {"check", "create", "updateLastScan", "scanLog"})
        /\ r.pc = "returned" =>
             \A e \in DOMAIN r.scanResults :
               r.scanResults[e].serialId \in r.searchFailed
                 => "failed" \in DOMAIN r.scanResults[e]

\* C7. Notification failure is non-fatal, as claimed: a run whose notifyOwner
\* call failed has not thrown.
C7_NotifyFailureNonFatal ==
  \A p \in Procs : ~(req[p].pc = "thrown" /\ req[p].err = "notification failed")

\* C3. Check-then-insert race: every insert a scan attempts takes effect (the
\* rows a request has written for a serial are as many as it has counted), also
\* when another request has inserted the same serial and URL since the check;
\* and two rows with the same serial and URL are always of two requests.
C3_InsertNeverRefused ==
  /\ \A p \in Procs :
       LET r == req[p] IN
         /\ (Scanning(r) \/ (~IsFleet(r) /\ r.pc \in {"notify", "returned"}))
              => Cardinality(DetectionsBy(r, Serial(r).id)) = r.newDetections
         /\ IsFleet(r)
              => \A e \in DOMAIN r.scanResults :
                   Cardinality(DetectionsBy(r, r.scanResults[e].serialId))
                     = r.scanResults[e].newDetections
  /\ \A i, j \in DOMAIN detections :
       (i # j /\ SameKey(detections[i], detections[j]))
         => detections[i].detectedAt # detections[j].detectedAt

\* Two requests in flight have each inserted the same serial and URL.
C3_Witness ==
  \E p, q \in Procs :
    /\ p # q
    /\ req[p].newDetections > 0
    /\ req[q].newDetections > 0
    /\ \E i, j \in DOMAIN detections :
         /\ i # j
         /\ SameKey(detections[i], detections[j])
         /\ detections[i].detectedAt = req[p].now
         /\ detections[j].detectedAt = req[q].now

\* The end-to-end scenario's run: a returned scan of type "all" of one serial
\* that had no detection before this request.
E2ERun(r) ==
  /\ r.pc = "returned"
  /\ r.op \in {"single", "all"}
  /\ r.searchType = "all"
  /\ Len(r.activeSerials) = 1
  /\ \A k \in DOMAIN detections :
       detections[k].serialId = Serial(r).id => detections[k].detectedAt = r.now

\* What the scenario's run leaves and returns, but for the scan log.
E2EOutcome(r) ==
  LET mine == {k \in DOMAIN detections : detections[k].serialId = Serial(r).id} IN
    /\ Cardinality(mine) = 2
    /\ Cardinality({k \in mine : detections[k].isShopee}) = 1
    /\ \A k \in mine :
         detections[k].isShopee
           => /\ detections[k].shopeeShopId = <<"1">>
              /\ detections[k].shopeeProductId = <<"2">>
    /\ IF IsFleet(r)
       THEN r.ret.totalNewDetections = 2 /\ r.ret.totalShopeeDetections = 1
       ELSE r.ret.newDetections = 2 /\ r.ret.shopeeDetections = 1
    /\ r.notified = 1

C11_StatusTransitionFreedom ==
  /\ NoRequestInFlight =>
       \A k \in DOMAIN detections, t \in Statuses :
         ENABLED DetectionsUpdateStatus(detections[k].id, t)
  /\ lastCall.op = "updateStatus" =>
       /\ DOMAIN detections = DOMAIN lastCall.detections
       /\ \A k \in DOMAIN detections :
            detections[k] =
              IF lastCall.detections[k].id = lastCall.id
              THEN [lastCall.detections[k] EXCEPT !.status = lastCall.status]
              ELSE lastCall.detections[k]

\* An ignored detection has been set back to new.
C11_Witness ==
  /\ lastCall.op = "updateStatus"
  /\ \E k \in DOMAIN detections :
       /\ lastCall.detections[k].id = lastCall.id
       /\ lastCall.detections[k].status = "ignored"
       /\ detections[k].status = "new"

\* The delete request that has returned was made by the owner of the serial.
DeletedByOwner(r) ==
  /\ r.op = "delete"
  /\ r.pc = "returned"
  /\ lastCall.op = "delete"
  /\ \E k \in DOMAIN lastCall.serials :
       lastCall.serials[k].id = r.serialId /\ lastCall.serials[k].userId = r.user

\* C12. Delete cascade: when serials.delete called by the owner has returned,
\* the serial is gone, no detection and no scan log of it remains, and the
\* serials, detections and scan logs of the other serials are as they were
\* before the call, in both storage modes.
C12_DeleteCascade ==
  \A p \in Procs :
    LET r == req[p] IN
      DeletedByOwner(r) =>
        /\ serials = SelectSeq(lastCall.serials, LAMBDA x : x.id # r.serialId)
        /\ detections = SelectSeq(lastCall.detections, LAMBDA d : d.serialId # r.serialId)
        /\ scanLogs = SelectSeq(lastCall.scanLogs, LAMBDA l : l.serialId # r.serialId)
        /\ \A k \in DOMAIN serials : serials[k].id # r.serialId
        /\ \A k \in DOMAIN detections : detections[k].serialId # r.serialId
        /\ \A k \in DOMAIN scanLogs : scanLogs[k].serialId # r.serialId

\* With a database, the owner has deleted a serial that had detections and a
\* scan log, and the detections and the scan log of another serial remain.
C12_Witness ==
  \E p \in Procs :
    LET r == req[p] IN
      /\ DeletedByOwner(r)
      /\ dbMode
      /\ \E k \in DOMAIN lastCall.detections : lastCall.detections[k].serialId = r.serialId
      /\ \E k \in DOMAIN lastCall.scanLogs : lastCall.scanLogs[k].serialId = r.serialId
      /\ detections # <<>>
      /\ scanLogs # <<>>
      /\ serials # <<>>

\* The serials whose last-scan timestamp the request has updated.
Stamped(r) ==
  IF r.op \notin {"single", "shopee", "all", "allShopee"} THEN {}
  ELSE IF IsFleet(r)
  THEN {r.scanResults[e].serialId : e \in DOMAIN r.scanResults}
         \cup (IF r.pc = "scanLog" THEN {Serial(r).id} ELSE {})
  ELSE IF r.pc \in {"scanLog", "notify", "returned"} THEN {Serial(r).id} ELSE {}

\* C13. Last-scan timestamps, as claimed: a scan that has updated the timestamps
\* of a serial has set lastScanAt exactly when its search type is 'all' or
\* 'general' and lastShopeeScanAt exactly when it is 'all' or 'shopee'.
C13_TimestampsFollowSearchType ==
  \A p \in Procs :
    LET r == req[p] IN
      \A k \in DOMAIN serials :
        serials[k].id \in Stamped(r) =>
          /\ serials[k].lastScanAt = r.now <=> r.searchType \in {"all", "general"}
          /\ serials[k].lastShopeeScanAt = r.now <=> r.searchType \in {"all", "shopee"}

\* The serials whose scan the request has completed (its createScanLog call
\* has returned), with the counters of that scan.
Completed(r) ==
  IF r.op \notin {"single", "shopee", "all", "allShopee"} THEN {}
  ELSE IF IsFleet(r)
  THEN {[serialId |-> r.scanResults[e].serialId,
         newDetections |-> r.scanResults[e].newDetections,
         shopeeDetections |-> IF r.op = "all" THEN r.scanResults[e].shopeeDetections
                              ELSE r.scanResults[e].newDetections] :
          e \in DOMAIN r.scanResults}
  ELSE IF r.pc \in {"notify", "returned"} \/ r.err = "notification failed"
  THEN {[serialId |-> Serial(r).id, newDetections |-> r.newDetections,
         shopeeDetections |-> IF IsShopeeOnly(r) THEN r.newDetections
                              ELSE r.shopeeDetections]}
  ELSE {}

\* Every completed scan of a serial has its scan log rows, as many as given for
\* the storage mode, carrying the counters of the scan; a scan has no other rows.
LogsPerScan(withDatabase, inMemory) ==
  \A p \in Procs :
    LET r == req[p] IN
      /\ \A c \in Completed(r) :
           /\ Cardinality(ScanLogsBy(r, c.serialId))
                = (IF dbMode THEN withDatabase ELSE inMemory)
           /\ \A k \in ScanLogsBy(r, c.serialId) :
                /\ scanLogs[k].newDetections = c.newDetections
                /\ scanLogs[k].shopeeDetections = c.shopeeDetections
                /\ ~IsFleet(r) => scanLogs[k].resultsCount = Len(r.results)
      /\ \A k \in DOMAIN scanLogs :
           (scanLogs[k].completedAt = r.now /\ r.pc # "idle" /\ r.pc # "scanLog")
             => \E c \in Completed(r) : c.serialId = scanLogs[k].serialId

\* The rows that existed before a step are the same after it.
ScanLogsOnlyAppended ==
  /\ Len(scanLogs') \in {Len(scanLogs), Len(scanLogs) + 1}
  /\ SubSeq(scanLogs', 1, Len(scanLogs)) = scanLogs

C15_CreateFailureSkipsOneResult ==
  \A p \in Procs :
    LET r == req[p] IN
      r.failedAt = "create" =>
        /\ r.pc # "thrown"
        /\ r.pc \in {"check", "create", "updateLastScan", "scanLog", "notify", "returned"}

\* The identifiers recorded with a detection.
Identifiers(d) ==
  [shopId |-> d.shopeeShopId, productId |-> d.shopeeProductId,
   shopName |-> d.shopeeShopName]

\* What the claimed priority gives for a URL that parses: both ids and no name
\* when the product pattern matches anywhere in the URL; else the name alone when
\* the path is one segment without the infix "-i."; else nothing.
ByPriority(u) ==
  LET s == Chars(u)
      parts == PathParts(Pathname(s))
  IN IF \E k \in 1..Len(s) : ProductMatchAt(s, k)
     THEN [shopId |-> ProductMatch(s)[1], productId |-> ProductMatch(s)[2],
           shopName |-> NoText]
     ELSE IF Len(parts) = 1 /\ ~Includes(parts[1], ProductInfix)
     THEN [shopId |-> NoText, productId |-> NoText, shopName |-> parts[1]]
     ELSE [shopId |-> NoText, productId |-> NoText, shopName |-> NoText]

C17_MalformedClassifiesSafely ==
  \A k \in DOMAIN detections :
    LET d == detections[k] IN
      ~UrlParses(Chars(d.sourceUrl)) =>
        /\ ~d.isShopee
        /\ Identifiers(d) = NoInfo

\* C18. Source-type purity: no detection has sourceType = 'general' together
\* with isShopee = true, whatever the scan type and the answers of the queries.
C18_SourceTypePurity ==
  \A k \in DOMAIN detections :
    ~(detections[k].sourceType = "general" /\ detections[k].isShopee)

\* A scan with a general query was answered a marketplace URL by that query, has
\* dropped it from its results and has passed its recording loop.
C18_Witness ==
  \E p \in Procs :
    LET r == req[p] IN
      /\ r.pc \in {"scanLog", "returned", "notify"}
      /\ ~IsShopeeOnly(r)
      /\ r.searchType \in {"all", "general"}
      /\ lastCall.op = "search"
      /\ \E i \in DOMAIN lastCall.general : isShopeeUrl(lastCall.general[i])
      /\ \A i \in DOMAIN r.results :
           r.results[i].source = "general" => ~r.results[i].isShopee
      /\ \E i \in DOMAIN r.results : r.results[i].source = "shopee"

\* C19. Marketplace identifiers imply the marketplace flag: a detection with a
\* shop id, a product id or a shop name has isShopee = true, on all scan paths.
C19_IdentifiersImplyFlag ==
  \A k \in DOMAIN detections :
    Identifiers(detections[k]) # NoInfo => detections[k].isShopee

\* A detection of another site's page, from which a shop name could be extracted,
\* is recorded without identifiers and without the flag, next to a detection
\* that has identifiers and the flag.
C19_Witness ==
  \E j, k \in DOMAIN detections :
    /\ ~detections[j].isShopee
    /\ extractShopeeSellerInfo(detections[j].sourceUrl) # NoInfo
    /\ Identifiers(detections[j]) = NoInfo
    /\ detections[k].isShopee
    /\ Identifiers(detections[k]) # NoInfo

\* The detections whose serial belongs to user u, narrowed by the filter.
OwnedDetections(u, filter) ==
  {detections[k] : k \in
     {j \in DOMAIN detections :
        /\ \E i \in DOMAIN serials :
             serials[i].id = detections[j].serialId /\ serials[i].userId = u
        /\ filter = NoFilter \/ detections[j].isShopee = filter[1]}}

\* C20. Detection listing, as claimed: what detections.list has returned to user
\* u is, each row once, exactly the detections whose serial u owns; with the
\* filter on isShopee, exactly those of them with that flag.
C20_ListingOwnerScoped ==
  lastCall.op = "list" =>
    /\ {lastCall.result[k] : k \in DOMAIN lastCall.result}
         = OwnedDetections(lastCall.user, lastCall.filter)
    /\ \A j, k \in DOMAIN lastCall.result :
         lastCall.result[j].id = lastCall.result[k].id => j = k

\* C21. Marketplace scan logs, as claimed: every scan log row with scanType
\* 'shopee' has shopeeDetections = newDetections, whichever procedure wrote it
\* and whatever the marketplace query returned.
C21_ShopeeLogsCountAllAsShopee ==
  \A k \in DOMAIN scanLogs :
    scanLogs[k].scanType = "shopee"
      => scanLogs[k].shopeeDetections = scanLogs[k].newDetections

\* The URLs of a request's result list that no earlier scan recorded for the
\* serial being scanned: what a scan running alone records.
NewUrls(r) ==
  {r.results[j].url : j \in DOMAIN r.results}
    \ {detections[k].sourceUrl :
         k \in {j \in DOMAIN detections :
                  detections[j].serialId = Serial(r).id /\ detections[j].detectedAt # r.now}}

LoopDone(r) ==
  \/ r.pc \in {"updateLastScan", "scanLog"}
  \/ ~IsFleet(r) /\ r.pc \in {"notify", "returned"}

\* The rows of a table that do not belong to serial id.
RowsOfOthers(rows, id) == SelectSeq(rows, LAMBDA x : x.serialId # id)

AloneOutcome ==
  \A p \in Procs :
    LET r == req[p] IN
      LoopDone(r) =>
        /\ r.newDetections = Cardinality(NewUrls(r))
        /\ Cardinality(DetectionsBy(r, Serial(r).id)) = Cardinality(NewUrls(r))
        /\ {detections[k].sourceUrl : k \in DetectionsBy(r, Serial(r).id)} = NewUrls(r)
        /\ ~IsShopeeOnly(r) =>
             r.shopeeDetections = Cardinality({u \in NewUrls(r) : isShopeeUrl(u)})

OthersUntouched ==
  \A p \in Procs :
    LET r == req[p]
        id == IF r.activeSerials = <<>> THEN 0 ELSE Serial(r).id
    IN (r.pc # "idle" /\ req'[p] # r) =>
         /\ RowsOfOthers(detections', id) = RowsOfOthers(detections, id)
         /\ RowsOfOthers(scanLogs', id) = RowsOfOthers(scanLogs, id)
         /\ SelectSeq(serials', LAMBDA s : s.id # id)
              = SelectSeq(serials, LAMBDA s : s.id # id)

\* C22. Serial isolation: while two requests scan different serials, whatever the
\* interleaving, each scan ends with the counters and the detections of a scan
\* running alone (one row per URL not yet recorded for its own serial, also when
\* the URL is recorded for the other serial), and no step of a scan creates,
\* changes or deletes a detection, a scan log or a serial row of another serial.
C22_SerialIsolation == [][OthersUntouched /\ AloneOutcome']_vars

\* Both processes have scanned at the same time, each its own serial, and each
\* has recorded the same URL as new.
C22_Witness ==
  /\ req["p1"].pc = "scanLog" /\ req["p2"].pc = "scanLog"
  /\ Serial(req["p1"]).id # Serial(req["p2"]).id
  /\ req["p1"].newDetections = 1 /\ req["p2"].newDetections = 1
  /\ \E j \in DetectionsBy(req["p1"], Serial(req["p1"]).id),
        k \in DetectionsBy(req["p2"], Serial(req["p2"]).id) :
       detections[j].sourceUrl = detections[k].sourceUrl

\* C23. Uppercase normalization: after any sequence of serials.create and
\* serials.update calls every stored serial number is in upper case (no character
\* of it changes when upper-cased), and upper-casing an input twice gives what upper-casing
\* it once gives.
C23_SerialNumbersUppercase ==
  /\ \A k \in DOMAIN serials :
       \A i \in DOMAIN serials[k].serialNumber :
         Upper(serials[k].serialNumber[i]) = serials[k].serialNumber[i]
  /\ \A sn \in NumberInputs : toUpperCase(toUpperCase(sn)) = toUpperCase(sn)

\* The owner has replaced a serial number typed with lower-case letters.
C23_Witness ==
  /\ lastCall.op = "updateNumber"
  /\ toUpperCase(lastCall.serialNumber) # lastCall.serialNumber
  /\ \E k \in DOMAIN serials :
       /\ serials[k].id = lastCall.id /\ serials[k].userId = lastCall.user
       /\ serials[k].serialNumber = toUpperCase(lastCall.serialNumber)
       /\ \E j \in DOMAIN serials : serials[j].serialNumber # serials[k].serialNumber

\* A stored value without two leading non-empty parts around a colon.
LacksForm(storedHash) ==
  LET parts == split(storedHash) IN
    Len(parts) < 2 \/ parts[1] = <<>> \/ parts[2] = <<>>

\* C24. Password hash round trip: verifyPassword always returns a boolean; against
\* the value hashPassword(p) produced (whatever the salt) it returns true for p
\* and false for every other password; against a stored value that lacks the
\* 'salt:hash' form it returns false.
C24_PasswordRoundTrip ==
  lastCall.op = "verifyPassword" =>
    /\ lastCall.result \in BOOLEAN
    /\ \A p \in Passwords, salt \in Salts :
         lastCall.stored = hashPassword(p, salt)
           => (lastCall.result = (p = lastCall.password))
    /\ LacksForm(lastCall.stored) => lastCall.result = FALSE

\* A stored hash has accepted its own password, which contains a colon.
C24_Witness ==
  /\ lastCall.op = "verifyPassword"
  /\ lastCall.result = TRUE
  /\ lastCall.password = <<"p", Colon>>

\* The serials of a user and the detections of those serials, counted from the
\* store.
SerialsOf(u) == {k \in DOMAIN serials : serials[k].userId = u}
DetectionsOf(u) ==
  {k \in DOMAIN detections :
     \E j \in SerialsOf(u) : serials[j].id = detections[k].serialId}

ScanOps == {"single", "shopee", "all", "allShopee"}

\* A step of a scan request leaves the detections alone or appends one row.
ScanAddsOnly ==
  \A p \in Procs :
    (req[p].op \in ScanOps /\ req'[p] # req[p]) =>
      \/ detections' = detections
      \/ /\ Len(detections') = Len(detections) + 1
         /\ SubSeq(detections', 1, Len(detections)) = detections
         /\ detections'[Len(detections')].status = "new"

\* C26. Scans only add detections: every step of a scan leaves the detections as
\* they are or appends one detection with status 'new'; no existing detection is
\* modified or deleted, so a detection whose URL a rescan finds again keeps its
\* status ('processed' and 'ignored' included) and all its other fields.
C26_ScansOnlyAdd == [][ScanAddsOnly]_vars

\* A rescan has returned after meeting the URL of a detection the user had set
\* to 'ignored', and has recorded another URL next to it.
C26_Witness ==
  LET r == req["p1"] IN
    /\ r.op \in ScanOps /\ r.pc = "returned"
    /\ r.newDetections = 1
    /\ \E j \in DOMAIN r.results, k \in DOMAIN detections :
         /\ detections[k].serialId = Serial(r).id
         /\ detections[k].sourceUrl = r.results[j].url
         /\ detections[k].detectedAt # r.now
         /\ detections[k].status = "ignored"

RECURSIVE SumOf(_)
SumOf(numbers) ==
  IF numbers = <<>> THEN 0 ELSE numbers[1] + SumOf(Tail(numbers))

\* C27. Fleet totals: when scan.all returns, results has one entry per active
\* serial of the caller, in listing order; totalNewDetections is the sum of the
\* entries' newDetections and totalShopeeDetections the sum of their
\* shopeeDetections; each entry's newDetections is the number of detections the
\* run added for that serial.
C27_FleetTotalsAreSums ==
  \A p \in Procs :
    LET r == req[p]
        listed == activeSerials(getUserSerials(r.user))
        entries == r.ret.results
    IN (r.op = "all" /\ r.pc = "returned") =>
         /\ Len(entries) = Len(listed)
         /\ r.ret.scannedCount = Len(listed)
         /\ \A j \in DOMAIN entries :
              /\ entries[j].serialId = listed[j].id
              /\ entries[j].newDetections =
                   Cardinality(DetectionsBy(r, entries[j].serialId))
         /\ r.ret.totalNewDetections =
              SumOf([j \in DOMAIN entries |-> entries[j].newDetections])
         /\ r.ret.totalShopeeDetections =
              SumOf([j \in DOMAIN entries |-> entries[j].shopeeDetections])

\* scan.all has returned two entries, each with detections, one of them with a
\* marketplace detection.
C27_Witness ==
  LET r == req["p1"] IN
    /\ r.op = "all" /\ r.pc = "returned"
    /\ Len(r.ret.results) = 2
    /\ r.ret.results[1].newDetections >= 1
    /\ r.ret.results[2].newDetections >= 1
    /\ r.ret.totalShopeeDetections = 1

\* The last call was serials.delete by a user on a serial of another user.
DeleteByNonOwner ==
  /\ lastCall.op = "delete"
  /\ \E k \in DOMAIN lastCall.serials :
       lastCall.serials[k].id = lastCall.id /\ lastCall.serials[k].userId # lastCall.user

\* The last call was detections.updateStatus on a detection of a serial that some
\* user does not own. The procedure does not look at its caller: the call stands
\* for the same call made by that user.
UpdateStatusByNonOwner ==
  /\ lastCall.op = "updateStatus"
  /\ \E k \in DOMAIN lastCall.detections, j \in DOMAIN serials, u \in Users :
       /\ lastCall.detections[k].id = lastCall.id
       /\ serials[j].id = lastCall.detections[k].serialId
       /\ serials[j].userId # u

\* C28. Mutations by a non-owner, as claimed: serials.delete and
\* detections.updateStatus called by a user on a serial or a detection of another
\* user's serial leave the serials, the detections and the scan logs as they
\* were, with a database and without.
C28_NonOwnerMutationsAreNoOps ==
  /\ DeleteByNonOwner =>
       /\ serials = lastCall.serials
       /\ detections = lastCall.detections
       /\ scanLogs = lastCall.scanLogs
  /\ UpdateStatusByNonOwner => detections = lastCall.detections

\* The detections a run has recorded, for whichever serial.
RecordedBy(r) == {k \in DOMAIN detections : detections[k].detectedAt = r.now}

\* C29. No detection unreported, as claimed: a scan run that has ended, by
\* returning or by throwing, and has recorded at least one detection has called
\* notifyOwner.
C29_NoDetectionUnreported ==
  \A p \in Procs :
    LET r == req[p] IN
      (r.op \in ScanOps /\ r.pc \in {"returned", "thrown"} /\ RecordedBy(r) # {})
        => r.notified >= 1

\* C30. Referential integrity, as claimed: every detection's serialId is the id
\* of a serial in the store, also while serials.delete and a scan of the same
\* serial are in flight together.
C30_DetectionsReferToSerials ==
  \A k \in DOMAIN detections :
    \E j \in DOMAIN serials : serials[j].id = detections[k].serialId

====
